---- MODULE Spec2Model ----
(***************************************************************************)
(* Bildkompressor.py: the record store (ImageDatabase), the drop handler   *)
(* that copies files into IMAGES_DIR and records them                      *)
(* (DragDropWidget.dropEvent) and the batch compression                    *)
(* (MainWindow.compress_all_images).                                       *)
(*                                                                         *)
(* A file name is [stem, sfx, ext]: the text stem, then one "_<n>" per     *)
(* entry n >= 1 of sfx and one "_compressed" per entry 0, then "." ext.    *)
(* photo_1_compressed.jpeg is [stem: photo, sfx: <<1, 0>>, ext: jpeg].     *)
(* Every path the program stores is os.path.join(IMAGES_DIR, name), so a   *)
(* path is [dir, name] and the directory is a function name -> content.    *)
(***************************************************************************)
EXTENDS FiniteSets, Integers, Sequences, TLC

\* db     the rows of the images table
\* seq    the largest id AUTOINCREMENT has assigned
\* fs     the files of IMAGES_DIR
\* images ImageTableModel.images, the rows the table view shows
\* last   what the last step was and what it reported
\* ops    the number of steps taken
VARIABLES db, seq, fs, images, last, ops

vars == <<db, seq, fs, images, last, ops>>

----------------------------------------------------------------------------
(* Bounds *)

\* handler invocations in one run of the program
MaxOps == 3
\* urls in one drop
MaxBatch == 2
\* rows ever inserted into the table
MaxRows == 3
\* environment faults (encoder failure, undeletable file) in one compression
MaxFaults == 1
\* direct calls of compress_all_images in one run
MaxCalls == 2

----------------------------------------------------------------------------
(* Names, paths, contents *)

IMAGES_DIR == "stored_images"

Name(stem, sfx, ext) == [stem |-> stem, sfx |-> sfx, ext |-> ext]

\* os.path.join(IMAGES_DIR, filename)
join(filename) == [dir |-> IMAGES_DIR, name |-> filename]

\* os.path.basename(path)
basename(path) == path.name

\* os.path.splitext(filename): (base, ext)
splitext(filename) ==
    [base |-> [stem |-> filename.stem, sfx |-> filename.sfx], ext |-> filename.ext]

\* str.lower() on the extensions and format names that occur
lower(s) ==
    CASE s = "PNG" -> "png"
      [] s = "JPG" -> "jpg"
      [] s = "JPEG" -> "jpeg"
      [] s = "WEBP" -> "webp"
      [] s = "BMP" -> "bmp"
      [] s = "GIF" -> "gif"
      [] s = "SVG" -> "svg"
      [] OTHER -> s

\* the extension list of dropEvent
SupportedExts == {"png", "jpg", "jpeg", "bmp", "gif", "tiff", "webp"}

\* f"{base}_{i}{ext}"
numbered(base, i, ext) == Name(base.stem, Append(base.sfx, i), ext)

\* f"{base}_compressed.{ext}"
compressed_name(base, ext) == Name(base.stem, Append(base.sfx, 0), ext)

\* File contents: the picture a file holds (tag), the codec it was written
\* with ("src" for a file that came from outside, "bad" for a file PIL cannot
\* decode) and its pixel mode (for a file the program wrote, the mode of the
\* image handed to the encoder).
Content(tag, enc, mode) == [tag |-> tag, enc |-> enc, mode |-> mode]

Truncated == Content("none", "bad", "none")

decodable(c) == c.enc # "bad"

\* os.path.exists(path)
exists(dir, path) == path.name \in DOMAIN dir

\* the directory with file n holding c
write(dir, n, c) == [m \in DOMAIN dir \cup {n} |-> IF m = n THEN c ELSE dir[m]]

\* the directory without file n
unlink(dir, n) == [m \in DOMAIN dir \ {n} |-> dir[m]]

----------------------------------------------------------------------------
(* ImageDatabase *)

Row(id, filename, filepath) == [id |-> id, filename |-> filename, filepath |-> filepath]

ids(d) == {r.id : r \in d}

row(d, id) == CHOOSE r \in d : r.id = id

\* add_image had the column no UNIQUE constraint
add_image_unchecked(d, s, filename, filepath) ==
    [db |-> d \cup {Row(s + 1, filename, filepath)}, seq |-> s + 1, ret |-> s + 1]

\* add_image were the statement INSERT OR REPLACE
add_image_replace(d, s, filename, filepath) ==
    [db |-> {r \in d : r.filepath # filepath} \cup {Row(s + 1, filename, filepath)},
     seq |-> s + 1, ret |-> s + 1]

\* add_image had the id column no AUTOINCREMENT: the id is one more than the
\* largest id in the table, so the id of a deleted last row is given out again
add_image_rowid(d, s, filename, filepath) ==
    LET id == 1 + (CHOOSE m \in ids(d) \cup {0} : \A k \in ids(d) : k <= m)
    IN  IF \E r \in d : r.filepath = filepath
        THEN [db |-> d, seq |-> s, ret |-> 0]
        ELSE [db |-> d \cup {Row(id, filename, filepath)},
              seq |-> IF id > s THEN id ELSE s, ret |-> id]

\* add_image: INSERT under the UNIQUE constraint on filepath; id is
\* AUTOINCREMENT (one more than the largest id ever assigned).  ret = 0 is
\* Python's None.
add_image(d, s, filename, filepath) ==
    IF \E r \in d : r.filepath = filepath
    THEN [db |-> d, seq |-> s, ret |-> 0]
    ELSE [db |-> d \cup {Row(s + 1, filename, filepath)}, seq |-> s + 1, ret |-> s + 1]

\* get_all_images: SELECT ... ORDER BY id DESC
RECURSIVE get_all_images(_)
get_all_images(d) ==
    IF d = {} THEN <<>>
    ELSE LET top == CHOOSE r \in d : \A q \in d : q.id <= r.id
         IN <<top>> \o get_all_images(d \ {top})

\* update_image_path had the column no UNIQUE constraint
update_image_path_unchecked(d, image_id, new_filepath) ==
    [db |-> {IF r.id = image_id THEN Row(r.id, r.filename, new_filepath) ELSE r : r \in d},
     raised |-> FALSE]

\* update_image_path were the statement INSERT OR REPLACE keyed by id: an
\* unknown id makes a row
update_image_path_upsert(d, image_id, new_filepath) ==
    IF \E q \in d : q.id # image_id /\ q.filepath = new_filepath
    THEN [db |-> d, raised |-> TRUE]
    ELSE IF image_id \in ids(d)
    THEN [db |-> {IF r.id = image_id THEN Row(r.id, r.filename, new_filepath) ELSE r : r \in d},
          raised |-> FALSE]
    ELSE [db |-> d \cup {Row(image_id, basename(new_filepath), new_filepath)},
          raised |-> FALSE]

\* update_image_path set filename along with filepath
update_image_path_renaming(d, image_id, new_filepath) ==
    IF \E r \in d : r.id = image_id /\ \E q \in d : q.id # image_id /\ q.filepath = new_filepath
    THEN [db |-> d, raised |-> TRUE]
    ELSE [db |-> {IF r.id = image_id THEN Row(r.id, basename(new_filepath), new_filepath)
                  ELSE r : r \in d},
          raised |-> FALSE]

\* update_image_path: UPDATE ... WHERE id=?; the UNIQUE constraint on
\* filepath makes the statement fail (sqlite3.IntegrityError) when another
\* row holds new_filepath.  An unknown id updates no row and raises nothing.
update_image_path(d, image_id, new_filepath) ==
    IF \E r \in d : r.id = image_id /\ \E q \in d : q.id # image_id /\ q.filepath = new_filepath
    THEN [db |-> d, raised |-> TRUE]
    ELSE [db |-> {IF r.id = image_id THEN Row(r.id, r.filename, new_filepath) ELSE r : r \in d},
          raised |-> FALSE]

\* delete_image: DELETE ... WHERE id=?
delete_image(d, image_id) == {r \in d : r.id # image_id}

----------------------------------------------------------------------------
(* DragDropWidget.dropEvent *)

\* One dropped url: the file's name and content, whether the url is a local
\* file, and what shutil.copy2 will do with it: "ok", "fail" (raises before
\* the target is created) or "partial" (raises with the target left behind
\* incomplete).
Url(name, content, local, copy) ==
    [name |-> name, content |-> content, local |-> local, copy |-> copy]

\* What a handler did with one item of its loop: the row id it concerns (0 for
\* none), the item's file name, the record's path as the loop read it (no path
\* for a dropped file), the path it wrote to, how the iteration ended, the
\* names in IMAGES_DIR when it began, and whether the file at filepath is the
\* same after the iteration as before it.
Step(id, filename, filepath, target, outcome, listing, intact) ==
    [id |-> id, filename |-> filename, filepath |-> filepath, target |-> target,
     outcome |-> outcome, listing |-> listing, intact |-> intact]

NoPath == join(Name("", <<>>, ""))

\* the file at path is the same in both directories (or in neither)
same_file(before, after, path) ==
    /\ exists(before, path) <=> exists(after, path)
    /\ exists(before, path) => after[path.name] = before[path.name]

\* the outcomes a handler shows in a QMessageBox.warning
Warned == {"CopyFailed", "DecodeFailed", "EncodeFailed", "IntegrityError"}

warnings(steps) == SelectSeq(steps, LAMBDA t : t.outcome \in Warned)

\* the suffix search: target_path = f"{base}_{i}{ext}" while it exists
RECURSIVE next_free(_, _, _, _)
next_free(dir, base, ext, i) ==
    IF exists(dir, join(numbered(base, i, ext)))
    THEN next_free(dir, base, ext, i + 1)
    ELSE join(numbered(base, i, ext))

\* target_path without the search for a free name
target_path_no_search(dir, filename) == join(filename)

\* the target of a copy: IMAGES_DIR/filename, or the first free numbered name
target_path(dir, filename) ==
    IF exists(dir, join(filename))
    THEN next_free(dir, splitext(filename).base, splitext(filename).ext, 1)
    ELSE join(filename)

\* the filter without .lower()
supported_case_sensitive(u) == u.local /\ splitext(u.name).ext \in SupportedExts

\* the urls that pass the filter of dropEvent
supported(u) == u.local /\ lower(splitext(u.name).ext) \in SupportedExts

dropped_files(urls) == SelectSeq(urls, supported)

\* shutil.copy2(f, target_path)
copy2(dir, u, target) ==
    CASE u.copy = "ok" -> write(dir, target.name, u.content)
      [] u.copy = "partial" -> write(dir, target.name, Truncated)
      [] OTHER -> dir

\* the loop body recorded the target before copying to it
drop_file_records_first(st, u) ==
    LET target == target_path(st.fs, u.name)
        copied == copy2(st.fs, u, target)
        added  == add_image(st.db, st.seq, basename(target), target)
        step(id, outcome) ==
            Step(id, u.name, NoPath, target, outcome, DOMAIN st.fs, TRUE)
    IN  IF added.ret = 0
        THEN [st EXCEPT !.steps = Append(@, step(0, "DuplicatePath"))]
        ELSE IF u.copy # "ok"
        THEN [st EXCEPT !.fs = copied, !.db = added.db, !.seq = added.seq,
                        !.steps = Append(@, step(0, "CopyFailed"))]
        ELSE [st EXCEPT !.fs = copied, !.db = added.db, !.seq = added.seq,
                        !.count = @ + 1, !.steps = Append(@, step(added.ret, "added"))]

\* the loop body removed the copy when add_image refused the path
drop_file_rolls_back(st, u) ==
    LET target == target_path(st.fs, u.name)
        copied == copy2(st.fs, u, target)
        added  == add_image(st.db, st.seq, basename(target), target)
        step(id, outcome) ==
            Step(id, u.name, NoPath, target, outcome, DOMAIN st.fs, TRUE)
    IN  IF u.copy # "ok"
        THEN [st EXCEPT !.fs = copied, !.steps = Append(@, step(0, "CopyFailed"))]
        ELSE IF added.ret # 0
        THEN [st EXCEPT !.fs = copied, !.db = added.db, !.seq = added.seq,
                        !.count = @ + 1, !.steps = Append(@, step(added.ret, "added"))]
        ELSE [st EXCEPT !.steps = Append(@, step(0, "DuplicatePath"))]

\* the loop body were the result of add_image not tested
drop_file_counts_all(st, u) ==
    LET target == target_path(st.fs, u.name)
        copied == copy2(st.fs, u, target)
        added  == add_image(st.db, st.seq, basename(target), target)
        step(id, outcome) ==
            Step(id, u.name, NoPath, target, outcome, DOMAIN st.fs, TRUE)
    IN  IF u.copy # "ok"
        THEN [st EXCEPT !.fs = copied, !.steps = Append(@, step(0, "CopyFailed"))]
        ELSE [st EXCEPT !.fs = copied, !.db = added.db, !.seq = added.seq,
                        !.count = @ + 1,
                        !.steps = Append(@, step(added.ret,
                                     IF added.ret # 0 THEN "added" ELSE "DuplicatePath"))]

\* the body of the loop over files, for one file
drop_file(st, u) ==
    LET target == target_path(st.fs, u.name)
        copied == copy2(st.fs, u, target)
        added  == add_image(st.db, st.seq, basename(target), target)
        step(id, outcome) ==
            Step(id, u.name, NoPath, target, outcome, DOMAIN st.fs, TRUE)
    IN  IF u.copy # "ok"
        THEN [st EXCEPT !.fs = copied, !.steps = Append(@, step(0, "CopyFailed"))]
        ELSE IF added.ret # 0
        THEN [st EXCEPT !.fs = copied, !.db = added.db, !.seq = added.seq,
                        !.count = @ + 1, !.steps = Append(@, step(added.ret, "added"))]
        ELSE [st EXCEPT !.fs = copied, !.db = added.db, !.seq = added.seq,
                        !.steps = Append(@, step(0, "DuplicatePath"))]

RECURSIVE drop_files(_, _)
drop_files(st, files) ==
    IF files = <<>> THEN st
    ELSE drop_files(drop_file(st, Head(files)), Tail(files))

\* dropEvent: the state after the handler, with added_count and the warnings
drop_event(d, s, dir, urls) ==
    drop_files([db |-> d, seq |-> s, fs |-> dir, count |-> 0, steps |-> <<>>],
               dropped_files(urls))

----------------------------------------------------------------------------
(* MainWindow.compress_all_images *)

\* the choices of CompressionDialog
BitDepths == {1, 8, 16}
Formats == {"JPEG", "PNG", "WEBP", "BMP"}

Options(quality, bit_depth, format) ==
    [quality |-> quality, bit_depth |-> bit_depth, format |-> format]

\* What the environment does to one record of a compression, beyond what the
\* files themselves decide:
\*   "enc_clean" img.convert or img.save raises and new_filepath is as it was
\*               (save fails before opening the file, or PIL removes the file
\*               it created)
\*   "enc_dirty" img.save raises after opening new_filepath for writing
\*               ("w+b"), which leaves an incomplete file there
\*   "rm_fail"   os.remove(filepath) raises (the file is locked)
FaultKinds == {"enc_clean", "enc_dirty", "rm_fail"}

\* faults: a function from some record ids to the fault each one meets
fault_of(faults, image_id) ==
    IF image_id \in DOMAIN faults THEN faults[image_id] ELSE "none"

\* the if/elif chain ended in an else that converts to grayscale
convert_else_gray(mode, bit_depth) ==
    CASE bit_depth = 1 -> "1"
      [] bit_depth = 8 -> IF mode # "RGB" /\ mode # "RGBA" THEN "L" ELSE "RGB"
      [] bit_depth = 16 -> IF mode \in {"I;16", "I;16B"} THEN mode ELSE "I;16"
      [] OTHER -> "L"

\* the bit depth conversion: the mode of img after the if/elif chain
convert(mode, bit_depth) ==
    CASE bit_depth = 1 -> "1"
      [] bit_depth = 8 -> IF mode # "RGB" /\ mode # "RGBA" THEN "L" ELSE "RGB"
      [] bit_depth = 16 -> IF mode \in {"I;16", "I;16B"} THEN mode ELSE "I;16"
      [] OTHER -> mode

\* the formats PIL has an encoder for, among those that occur: img.save with
\* any other format raises KeyError before it opens new_filepath
SaveFormats == Formats \cup {"GIF"}

\* new_filepath of a record under a format
new_path(filename, options) ==
    join(compressed_name(splitext(filename).base, lower(options.format)))

\* img.save(new_filepath, ...): the directory afterwards
save(dir, new_filepath, content, options, fault) ==
    IF options.format \notin SaveFormats THEN dir
    ELSE CASE fault = "enc_clean" -> dir
           [] fault = "enc_dirty" -> write(dir, new_filepath.name, Truncated)
           [] OTHER -> write(dir, new_filepath.name,
                             Content(content.tag, options.format,
                                     convert(content.mode, options.bit_depth)))

\* os.remove(filepath) inside try/except: pass
remove(dir, filepath, fault) ==
    IF fault = "rm_fail" \/ ~exists(dir, filepath) THEN dir ELSE unlink(dir, filepath.name)

\* the loop body without the test filepath != new_filepath: the file just
\* written in place is removed
compress_image_untested(st, image, options, faults) ==
    LET fault        == fault_of(faults, image.id)
        new_filepath == new_path(image.filename, options)
        saved        == save(st.fs, new_filepath, st.fs[image.filepath.name], options, fault)
        removed      == remove(saved, image.filepath, fault)
        updated      == update_image_path(st.db, image.id, new_filepath)
        step(outcome, after) ==
            Step(image.id, image.filename, image.filepath, new_filepath, outcome,
                 DOMAIN st.fs, same_file(st.fs, after, image.filepath))
    IN  IF ~exists(st.fs, image.filepath) \/ ~decodable(st.fs[image.filepath.name])
        THEN [st EXCEPT !.steps = Append(@, step("DecodeFailed", st.fs))]
        ELSE IF fault \in {"enc_clean", "enc_dirty"} \/ options.format \notin SaveFormats
        THEN [st EXCEPT !.fs = saved, !.steps = Append(@, step("EncodeFailed", saved))]
        ELSE IF updated.raised
        THEN [st EXCEPT !.fs = removed,
                        !.steps = Append(@, step("IntegrityError", removed))]
        ELSE [st EXCEPT !.fs = removed, !.db = updated.db,
                        !.steps = Append(@, step("updated", removed))]

\* the body of the loop over the snapshot, for one (image_id, filename, filepath)
compress_image(st, image, options, faults) ==
    LET fault        == fault_of(faults, image.id)
        new_filepath == new_path(image.filename, options)
        saved        == save(st.fs, new_filepath, st.fs[image.filepath.name], options, fault)
        removed      == remove(saved, image.filepath, fault)
        updated      == update_image_path(st.db, image.id, new_filepath)
        step(outcome, after) ==
            Step(image.id, image.filename, image.filepath, new_filepath, outcome,
                 DOMAIN st.fs, same_file(st.fs, after, image.filepath))
    IN  IF ~exists(st.fs, image.filepath) \/ ~decodable(st.fs[image.filepath.name])
        THEN [st EXCEPT !.steps = Append(@, step("DecodeFailed", st.fs))]
        ELSE IF fault \in {"enc_clean", "enc_dirty"} \/ options.format \notin SaveFormats
        THEN [st EXCEPT !.fs = saved, !.steps = Append(@, step("EncodeFailed", saved))]
        ELSE IF image.filepath = new_filepath
        THEN [st EXCEPT !.fs = saved, !.steps = Append(@, step("saved", saved))]
        ELSE IF updated.raised
        THEN [st EXCEPT !.fs = removed,
                        !.steps = Append(@, step("IntegrityError", removed))]
        ELSE [st EXCEPT !.fs = removed, !.db = updated.db,
                        !.steps = Append(@, step("updated", removed))]

RECURSIVE compress_images(_, _, _, _)
compress_images(st, snapshot, options, faults) ==
    IF snapshot = <<>> THEN st
    ELSE compress_images(compress_image(st, Head(snapshot), options, faults),
                         Tail(snapshot), options, faults)

\* compress_all_images: the state after the handler, with total and the warnings
compress_all_images(d, s, dir, options, faults) ==
    compress_images([db |-> d, seq |-> s, fs |-> dir, count |-> Cardinality(d),
                     steps |-> <<>>],
                    get_all_images(d), options, faults)

----------------------------------------------------------------------------
(* The program: the two handlers, one whole handler per step *)

Photo(ext) == Name("photo", <<>>, ext)

PictureA == Content("A", "src", "RGB")
PictureB == Content("B", "src", "P")
Corrupt  == Content("C", "bad", "none")

\* the urls a drop is made of
Urls ==
    { Url(Photo("png"), PictureA, TRUE, "ok"),
      Url(Photo("png"), PictureB, TRUE, "ok"),
      Url(Photo("JPG"), PictureB, TRUE, "ok"),
      Url(Photo("png"), Corrupt, TRUE, "ok"),
      Url(Photo("txt"), PictureA, TRUE, "ok"),
      Url(Photo("png"), PictureA, TRUE, "fail"),
      Url(Photo("png"), PictureB, TRUE, "partial"),
      Url(Photo("png"), PictureA, FALSE, "ok") }

Batches == UNION {[1..n -> Urls] : n \in 1..MaxBatch}

\* the slider's range is 1..95
Qualities == {75}

AllOptions == {Options(q, b, f) : q \in Qualities, b \in BitDepths, f \in Formats}

NoOptions == Options(0, 0, "none")

NoFaults == <<>>

FaultSets(d) ==
    UNION {[I -> FaultKinds] : I \in {J \in SUBSET ids(d) : Cardinality(J) <= MaxFaults}}

NoCall == Row(0, Name("", <<>>, ""), NoPath)

\* What the last step was and what it reported: the handler or store method
\* (op), its input (urls; options and faults; call), the count it reported
\* (added_count, total, or the id add_image returned), what its loop did item
\* by item (steps) and its closing message or exception (info).
Report(op, urls, options, faults, call, count, steps, info) ==
    [op |-> op, urls |-> urls, options |-> options, faults |-> faults, call |-> call,
     count |-> count, steps |-> steps, info |-> info]

Last(op, urls, options, faults, count, steps, info) ==
    Report(op, urls, options, faults, NoCall, count, steps, info)

Init ==
    /\ db = {}
    /\ seq = 0
    /\ fs = <<>>
    /\ images = get_all_images(db)
    /\ last = Last("init", <<>>, NoOptions, NoFaults, 0, <<>>, "none")
    /\ ops = 0

DropEvent ==
    /\ ops < MaxOps
    /\ \E urls \in Batches :
        /\ drop_event(db, seq, fs, urls).seq <= MaxRows
        /\ IF dropped_files(urls) = <<>>
           THEN /\ UNCHANGED <<db, seq, fs, images>>
                /\ last' = Last("drop", urls, NoOptions, NoFaults, 0, <<>>, "No images")
           ELSE LET st == drop_event(db, seq, fs, urls)
                IN  /\ db' = st.db
                    /\ seq' = st.seq
                    /\ fs' = st.fs
                    /\ images' = get_all_images(st.db)
                    /\ last' = Last("drop", urls, NoOptions, NoFaults, st.count, st.steps,
                                    "Images added")
    /\ ops' = ops + 1

\* compress_all_images called without the test for an empty table
compress_without_empty_test(choices) ==
    /\ ops < MaxOps
    /\ \E options \in choices :
        \E faults \in FaultSets(db) :
            LET st == compress_all_images(db, seq, fs, options, faults)
            IN  /\ db' = st.db
                /\ seq' = st.seq
                /\ fs' = st.fs
                /\ images' = get_all_images(st.db)
                /\ last' = Last("compress", <<>>, options, faults, st.count,
                                st.steps, "Compression Complete")
    /\ ops' = ops + 1

\* compress_all_images called with one of the given options
compress(choices) ==
    /\ ops < MaxOps
    /\ \E options \in choices :
        IF db = {}
        THEN /\ UNCHANGED <<db, seq, fs, images>>
             /\ last' = Last("compress", <<>>, NoOptions, NoFaults, 0, <<>>, "No images")
        ELSE \E faults \in FaultSets(db) :
                LET st == compress_all_images(db, seq, fs, options, faults)
                IN  /\ db' = st.db
                    /\ seq' = st.seq
                    /\ fs' = st.fs
                    /\ images' = get_all_images(st.db)
                    /\ last' = Last("compress", <<>>, options, faults, st.count,
                                    st.steps, "Compression Complete")
    /\ ops' = ops + 1

\* the Compress Images button: the options are those of CompressionDialog
CompressAll == compress(AllOptions)

Next == DropEvent \/ CompressAll

Spec == Init /\ [][Next]_vars

----------------------------------------------------------------------------
(* The record store called directly, by any caller *)

\* the paths and ids a direct caller passes
StoreNames == {Photo("png"), compressed_name(splitext(Photo("png")).base, "jpeg")}

StoreIds == 1..(MaxRows + 1)

StoreCall(op, call, count, info) ==
    Report(op, <<>>, NoOptions, NoFaults, call, count, <<>>, info)

AddImage ==
    /\ ops < MaxOps
    /\ seq < MaxRows
    /\ \E m, n \in StoreNames :
        LET added == add_image(db, seq, m, join(n))
        IN  /\ db' = added.db
            /\ seq' = added.seq
            /\ last' = StoreCall("add_image", Row(0, m, join(n)), added.ret,
                                 IF added.ret = 0 THEN "None" ELSE "lastrowid")
    /\ ops' = ops + 1
    /\ UNCHANGED <<fs, images>>

UpdateImagePath ==
    /\ ops < MaxOps
    /\ \E id \in StoreIds, n \in StoreNames :
        LET updated == update_image_path(db, id, join(n))
        IN  /\ db' = updated.db
            /\ last' = StoreCall("update_image_path", Row(id, n, join(n)), 0,
                                 IF updated.raised THEN "IntegrityError" ELSE "returned")
    /\ ops' = ops + 1
    /\ UNCHANGED <<seq, fs, images>>

DeleteImage ==
    /\ ops < MaxOps
    /\ \E id \in StoreIds :
        /\ db' = delete_image(db, id)
        /\ last' = StoreCall("delete_image", Row(id, NoCall.filename, NoCall.filepath), 0,
                             "returned")
    /\ ops' = ops + 1
    /\ UNCHANGED <<seq, fs, images>>

StoreNext == DropEvent \/ CompressAll \/ AddImage \/ UpdateImagePath \/ DeleteImage

StoreSpec == Init /\ [][StoreNext]_vars

----------------------------------------------------------------------------
(* compress_all_images called directly, with any options, on stored pictures
   of every pixel mode *)

\* the modes Image.open gives the stored pictures
Modes == {"1", "L", "P", "RGB", "RGBA", "CMYK", "YCbCr", "I", "I;16", "I;16B"}

\* a bit depth and two formats the dialog does not offer; PIL can write GIF
\* and cannot write SVG
AnyBitDepths == BitDepths \cup {4}
AnyFormats == Formats \cup {"GIF", "SVG"}

AnyOptions == {Options(q, b, f) : q \in Qualities, b \in AnyBitDepths, f \in AnyFormats}

\* the table and IMAGES_DIR as an earlier run of the program left them: empty,
\* or photo.png of some mode with its record
EngineInit ==
    /\ \/ db = {} /\ seq = 0 /\ fs = <<>>
       \/ \E mode \in Modes :
            /\ db = {Row(1, Photo("png"), join(Photo("png")))}
            /\ seq = 1
            /\ fs = write(<<>>, Photo("png"), Content("A", "src", mode))
    /\ images = get_all_images(db)
    /\ last = Last("init", <<>>, NoOptions, NoFaults, 0, <<>>, "none")
    /\ ops = 0

CompressAny == ops < MaxCalls /\ compress(AnyOptions)

EngineNext == CompressAny

EngineSpec == EngineInit /\ [][EngineNext]_vars

----------------------------------------------------------------------------
(* Properties *)

paths(d) == {r.filepath : r \in d}

\* the rows of after whose id is not in before
NewRows(before, after) == {r \in after : r.id \notin ids(before)}

Outcomes(steps) == {steps[i].outcome : i \in DOMAIN steps}

PhotoN(k, ext) == numbered(splitext(Photo(ext)).base, k, ext)

\* C1: in every state reached by drops and compressions from the empty store
\* and the empty directory, every record's filepath names a file that exists
\* in IMAGES_DIR.
C1_PathsExist == \A r \in db : exists(fs, r.filepath)

\* C2: in every state reached by drops, compressions and direct calls of
\* add_image, update_image_path and delete_image, no two records have the
\* same filepath.
C2_UniquePaths == \A r, q \in db : r.filepath = q.filepath => r = q

\* a compression has tried to move a record onto another record's path
C2_Witness ==
    /\ last.op = "compress"
    /\ "IntegrityError" \in Outcomes(last.steps)
    /\ Cardinality(db) >= 2

\* C3: after every drop, the number of records that did not exist before it
\* equals the added_count it reports, and the filepath of each of them differs
\* from the filepath of every other record.
C3_AcceptedCount ==
    [][last'.op = "drop" =>
        /\ Cardinality(NewRows(db, db')) = last'.count
        /\ \A r \in NewRows(db, db') : \A q \in db' : q.filepath = r.filepath => q = r]_vars

\* a drop of two files in which one add_image hit a recorded path and the
\* other made a record
C3_Witness ==
    /\ last.op = "drop"
    /\ last.count = 1
    /\ Outcomes(last.steps) = {"DuplicatePath", "added"}

\* C4: after every compression, each record that was decoded and encoded and
\* whose new path differs from the path it had has the new path as filepath.
C4_UpdatedToNewPath ==
    last.op = "compress" =>
        \A i \in DOMAIN last.steps :
            LET t == last.steps[i]
            IN  (t.outcome \notin {"DecodeFailed", "EncodeFailed"} /\ t.target # t.filepath)
                    => \E r \in db : r.id = t.id /\ r.filepath = t.target

\* the file at a record's path is missing or cannot be decoded
undecodable(dir, r) == ~exists(dir, r.filepath) \/ ~decodable(dir[r.filepath.name])

StepsOf(steps, id) == {i \in DOMAIN steps : steps[i].id = id}

\* C5: a compression of n records of which some have a missing or undecodable
\* file reports n, gives each such record exactly one failure, DecodeFailed,
\* and leaves it unchanged, and processes every other record and (unless its
\* encoding fails) leaves it with its new path as filepath.
C5_DecodeFailuresTolerated ==
    [][(last'.op = "compress" /\ \E r \in db : undecodable(fs, r)) =>
        /\ last'.count = Cardinality(db)
        /\ Len(last'.steps) = Cardinality(db)
        /\ \A r \in db :
            /\ Cardinality(StepsOf(last'.steps, r.id)) = 1
            /\ LET t == last'.steps[CHOOSE i \in StepsOf(last'.steps, r.id) : TRUE]
               IN  IF undecodable(fs, r)
                   THEN t.outcome = "DecodeFailed" /\ r \in db'
                   ELSE t.outcome # "EncodeFailed"
                            => \E q \in db' : q.id = r.id /\ q.filepath = t.target]_vars

\* C6: after every compression, each record whose encoding failed has the
\* filepath it had, its file was left as it was by that iteration, and every
\* record of the snapshot was processed.
C6_EncodeFailureLeavesOriginal ==
    last.op = "compress" =>
        /\ Len(last.steps) = last.count
        /\ \A i \in DOMAIN last.steps :
            LET t == last.steps[i]
            IN  t.outcome = "EncodeFailed"
                    => t.intact /\ \E r \in db : r.id = t.id /\ r.filepath = t.filepath

\* C7: in every drop, the path a file is copied to names no file that was in
\* IMAGES_DIR when the copy began; it is the file's own name if that was free,
\* and otherwise base_k.ext for the smallest k >= 1 whose name was free; and
\* every file that was in IMAGES_DIR before the drop is there, unchanged,
\* after it.
C7_PlaceNeverOverwrites ==
    [][last'.op = "drop" =>
        /\ \A i \in DOMAIN last'.steps :
            LET t    == last'.steps[i]
                base == splitext(t.filename).base
                ext  == splitext(t.filename).ext
            IN  /\ t.target.dir = IMAGES_DIR
                /\ t.target.name \notin t.listing
                /\ \/ t.target.name = t.filename
                   \/ /\ t.filename \in t.listing
                      /\ \E k \in 1..Cardinality(t.listing) :
                            /\ t.target.name = numbered(base, k, ext)
                            /\ \A j \in 1..(k - 1) : numbered(base, j, ext) \in t.listing
        /\ \A n \in DOMAIN fs : n \in DOMAIN fs' /\ fs'[n] = fs[n]]_vars

\* two different files named photo.png dropped together into a directory
\* that holds photo.png became photo_1.png and photo_2.png
C7_Witness ==
    /\ last.op = "drop"
    /\ Len(last.urls) = 2
    /\ last.urls[1].name = Photo("png") /\ last.urls[2].name = Photo("png")
    /\ last.urls[1].content # last.urls[2].content
    /\ Len(last.steps) = 2
    /\ Photo("png") \in last.steps[1].listing
    /\ last.steps[1].target = join(PhotoN(1, "png"))
    /\ last.steps[2].target = join(PhotoN(2, "png"))
    /\ {Photo("png"), PhotoN(1, "png"), PhotoN(2, "png")} \subseteq DOMAIN fs

\* the extensions of the supported set, in the spellings that occur
SupportedSpellings ==
    {"png", "PNG", "jpg", "JPG", "jpeg", "JPEG", "bmp", "BMP", "gif", "GIF",
     "tiff", "TIFF", "webp", "WEBP"}

\* the local files of a drop whose extension is supported, in order
Candidates(urls) == SelectSeq(urls, LAMBDA u : u.local /\ u.name.ext \in SupportedSpellings)

C9_UpdateUnchecked ==
    [][(last'.op = "update_image_path" /\ last'.call.id \in ids(db)) =>
        /\ last'.info = "returned"
        /\ \E r \in db' : r.id = last'.call.id /\ r.filepath = last'.call.filepath]_vars

\* C9 as amended: update_image_path on an existing id sets that record's
\* filepath to the new path and changes nothing else, unless a different
\* record has that path: then it raises IntegrityError and no record changes.
C9_UpdateChecked ==
    [][(last'.op = "update_image_path" /\ last'.call.id \in ids(db)) =>
        LET id == last'.call.id
            p  == last'.call.filepath
        IN  IF \E q \in db : q.id # id /\ q.filepath = p
            THEN last'.info = "IntegrityError" /\ db' = db
            ELSE /\ last'.info = "returned"
                 /\ db' = {IF r.id = id THEN Row(r.id, r.filename, p) ELSE r : r \in db}]_vars

\* update_image_path was refused on an existing record
C9_Witness ==
    /\ last.op = "update_image_path"
    /\ last.info = "IntegrityError"
    /\ last.call.id \in ids(db)
    /\ \E q \in db : q.id # last.call.id /\ q.filepath = last.call.filepath

\* C10: add_image with a filepath some record has returns None and leaves the
\* records as they were; with any other filepath it adds exactly one record,
\* with the given filename and filepath, and returns its id, which no record
\* had.
C10_AddImage ==
    [][last'.op = "add_image" =>
        IF last'.call.filepath \in paths(db)
        THEN last'.count = 0 /\ db' = db
        ELSE /\ last'.count > 0
             /\ last'.count \notin ids(db)
             /\ db' = db \cup {Row(last'.count, last'.call.filename, last'.call.filepath)}
             /\ Cardinality(db') = Cardinality(db) + 1]_vars

\* add_image was called with a recorded path
C10_Witness ==
    /\ last.op = "add_image"
    /\ last.info = "None"
    /\ last.call.filepath \in paths(db)

StoreMethods == {"update_image_path", "delete_image"}

AddedIds(steps) ==
    LET added == SelectSeq(steps, LAMBDA t : t.outcome = "added")
    IN  [i \in DOMAIN added |-> added[i].id]

\* C12: in every step, no two records have the same id; a record that did not
\* exist before has an id greater than every id ever assigned (seq, which
\* never decreases and bounds every id in the table), so no id is given out
\* twice, also after deletes; the records a drop makes get increasing ids in
\* the order of insertion; update_image_path and a compression leave the set
\* of ids as it was, and delete_image removes the given id and leaves every
\* other record as it was.
C12_IdsIncrease ==
    [][/\ \A r, q \in db' : r.id = q.id => r = q
       /\ \A r \in db : r.id <= seq
       /\ seq' >= seq
       /\ \A r \in db' : r.id <= seq'
       /\ \A r \in NewRows(db, db') : r.id > seq
       /\ last'.op = "drop" =>
            LET new == AddedIds(last'.steps)
            IN  /\ {new[i] : i \in DOMAIN new} = ids(NewRows(db, db'))
                /\ \A i, j \in DOMAIN new : i < j => new[i] < new[j]
       /\ last'.op = "add_image" => ids(NewRows(db, db')) = {last'.count} \ {0}
       /\ last'.op \in {"update_image_path", "compress"} => ids(db') = ids(db)
       /\ last'.op = "delete_image" => db' = {r \in db : r.id # last'.call.id}]_vars

\* add_image made a record after a record with a smaller id had been deleted
C12_Witness ==
    /\ last.op = "add_image"
    /\ last.count = seq
    /\ seq >= 2
    /\ (seq - 1) \notin ids(db)

\* the modes that carry multi-channel colour, those with a single channel
\* and, of these, the 16-bit ones (the palette mode P is left to neither)
ColourModes == {"RGB", "RGBA", "CMYK", "YCbCr"}
SingleChannelModes == {"1", "L", "I", "I;16", "I;16B"}
SixteenBitModes == {"I;16", "I;16B"}

Encoded == {"saved", "updated"}

\* C13: in every compression with a target depth of 1, 8 or 16, each record
\* that was encoded was handed to the encoder in this mode: at depth 1,
\* monochrome ("1"); at depth 8, 3-channel colour ("RGB") if its file had a
\* multi-channel colour mode and grayscale ("L") if it had a single-channel
\* mode; at depth 16, its own mode if that was a 16-bit single-channel mode
\* and 16-bit grayscale ("I;16") otherwise.
C13_BitDepthPolicy ==
    [][(last'.op = "compress" /\ last'.options.bit_depth \in BitDepths) =>
        \A i \in DOMAIN last'.steps :
            LET t     == last'.steps[i]
                depth == last'.options.bit_depth
                src   == fs[t.filepath.name].mode
                out   == fs'[t.target.name].mode
            IN  t.outcome \in Encoded =>
                    /\ depth = 1 => out = "1"
                    /\ (depth = 8 /\ src \in ColourModes) => out = "RGB"
                    /\ (depth = 8 /\ src \in SingleChannelModes) => out = "L"
                    /\ (depth = 16 /\ src \in SixteenBitModes) => out = src
                    /\ (depth = 16 /\ src \notin SixteenBitModes) => out = "I;16"]_vars

InvalidOptions(options) ==
    options.bit_depth \notin BitDepths \/ options.format \notin Formats

\* C14 as claimed: compress_all_images called on a table with records, with
\* a bit depth other than 1, 8, 16 or a format other than JPEG, PNG, WEBP,
\* BMP, reports InvalidOptions for the call, handles no record and changes
\* no record and no file.
C14_InvalidOptionsRejected ==
    [][(last'.op = "compress" /\ db # {} /\ InvalidOptions(last'.options)) =>
        /\ last'.info = "InvalidOptions"
        /\ last'.steps = <<>>
        /\ db' = db
        /\ fs' = fs]_vars

\* C14 as amended: compress_all_images called on a table with records, with
\* such a bit depth or format, is not rejected: it handles every record and
\* ends with its usual message.  A record encoded under a bit depth other
\* than 1, 8, 16 is handed to the encoder in the mode its file had.  Under a
\* format PIL has no encoder for, every record fails by itself (DecodeFailed
\* or EncodeFailed) and no record and no file changes; under any other format
\* each record that is encoded gets the path base_compressed.<format in lower
\* case> as with a format of the dialog.
C14_InvalidOptionsPerRecord ==
    [][(last'.op = "compress" /\ db # {} /\ InvalidOptions(last'.options)) =>
        LET steps   == last'.steps
            options == last'.options
        IN  /\ last'.info = "Compression Complete"
            /\ last'.count = Cardinality(db)
            /\ {steps[i].id : i \in DOMAIN steps} = ids(db)
            /\ Len(steps) = Cardinality(db)
            /\ options.format \notin SaveFormats =>
                    /\ \A i \in DOMAIN steps :
                            steps[i].outcome \in {"DecodeFailed", "EncodeFailed"}
                    /\ db' = db
                    /\ fs' = fs
            /\ \A i \in DOMAIN steps :
                    steps[i].outcome \in Encoded =>
                        /\ steps[i].target.name.ext = lower(options.format)
                        /\ \E r \in db' : r.id = steps[i].id /\ r.filepath = steps[i].target
                        /\ exists(fs', steps[i].target)
                        /\ options.bit_depth \notin BitDepths =>
                                fs'[steps[i].target.name].mode
                                    = fs[steps[i].filepath.name].mode]_vars

\* a call with a bit depth of 4 and the format GIF moved a record to a .gif
\* file
C14_Witness ==
    /\ last.op = "compress"
    /\ last.options.bit_depth \notin BitDepths
    /\ last.options.format = "GIF"
    /\ \E r \in db : r.filepath.name.ext = "gif" /\ exists(fs, r.filepath)

\* C15: a compression started on a table with no records reports a total of
\* 0 with the message "No images" (an information, not a warning), handles
\* nothing, and leaves the table, the id sequence, the files and the view as
\* they were.
C15_NothingToCompress ==
    [][(last'.op = "compress" /\ db = {}) =>
        /\ last'.count = 0
        /\ last'.info = "No images"
        /\ last'.steps = <<>>
        /\ db' = db
        /\ seq' = seq
        /\ fs' = fs
        /\ images' = images]_vars

\* a compression was started on an empty table while IMAGES_DIR held a file
C15_Witness ==
    /\ last.op = "compress"
    /\ last.info = "No images"
    /\ db = {}
    /\ DOMAIN fs # {}

\* C16: in every drop, every supported local file is handled, in order; a
\* file whose copy fails ends as CopyFailed with no record made for it; and
\* each record the drop makes belongs to a file whose copy succeeded, has
\* that copy's target as filepath, and the file there is the complete copy.
C16_RecordAfterCopy ==
    [][last'.op = "drop" =>
        LET kept  == Candidates(last'.urls)
            steps == last'.steps
        IN  /\ Len(steps) = Len(kept)
            /\ \A i \in DOMAIN steps :
                /\ steps[i].filename = kept[i].name
                /\ kept[i].copy # "ok" <=> steps[i].outcome = "CopyFailed"
                /\ steps[i].outcome = "CopyFailed" => steps[i].id = 0
            /\ Cardinality(NewRows(db, db'))
                    = Cardinality({i \in DOMAIN steps : steps[i].outcome = "added"})
            /\ \A r \in NewRows(db, db') :
                    \E i \in DOMAIN steps :
                        /\ steps[i].id = r.id
                        /\ steps[i].outcome = "added"
                        /\ kept[i].copy = "ok"
                        /\ steps[i].target = r.filepath
                        /\ exists(fs', r.filepath)
                        /\ fs'[r.filepath.name] = kept[i].content]_vars

\* a drop of two files: the copy of the first broke off and left an
\* incomplete file that no record names, the second was copied and recorded
C16_Witness ==
    /\ last.op = "drop"
    /\ Len(last.steps) = 2
    /\ last.urls[1].copy = "partial"
    /\ last.steps[1].outcome = "CopyFailed"
    /\ last.steps[2].outcome = "added"
    /\ exists(fs, last.steps[1].target)
    /\ last.steps[1].target \notin paths(db)
    /\ last.steps[2].target \in paths(db)

Duplicates(steps) == {i \in DOMAIN steps : steps[i].outcome = "DuplicatePath"}

\* C17 as claimed: in every drop, a file whose add_image was refused for a
\* recorded path stays in IMAGES_DIR as copied, is not counted in
\* added_count, and no record has its path as filepath.
C17_DuplicateOrphaned ==
    [][last'.op = "drop" =>
        LET kept  == Candidates(last'.urls)
            steps == last'.steps
        IN  /\ last'.count = Len(steps) - Cardinality({i \in DOMAIN steps :
                                    steps[i].outcome \in {"DuplicatePath", "CopyFailed"}})
            /\ \A i \in Duplicates(steps) :
                /\ exists(fs', steps[i].target)
                /\ fs'[steps[i].target.name] = kept[i].content
                /\ steps[i].target \notin paths(db')]_vars

\* C17 as amended: in every drop, a file whose add_image was refused for a
\* recorded path stays in IMAGES_DIR as copied, is not counted in
\* added_count and gets no record of its own; the record that had the path
\* before the drop still has it, unchanged, so the copied file is the file
\* of that older record.
C17_DuplicateKeepsOldRecord ==
    [][last'.op = "drop" =>
        LET kept  == Candidates(last'.urls)
            steps == last'.steps
        IN  /\ last'.count = Len(steps) - Cardinality({i \in DOMAIN steps :
                                    steps[i].outcome \in {"DuplicatePath", "CopyFailed"}})
            /\ Cardinality(NewRows(db, db')) = last'.count
            /\ \A i \in Duplicates(steps) :
                /\ exists(fs', steps[i].target)
                /\ fs'[steps[i].target.name] = kept[i].content
                /\ steps[i].id = 0
                /\ steps[i].target.name \notin steps[i].listing
                /\ \E r \in db : r.filepath = steps[i].target /\ r \in db'
                /\ \A q \in NewRows(db, db') : q.filepath # steps[i].target]_vars

\* a drop copied a file to a path whose record had lost its file: add_image
\* refused it, and the file is there under the older record's path
C17_Witness ==
    /\ last.op = "drop"
    /\ \E i \in Duplicates(last.steps) :
        /\ exists(fs, last.steps[i].target)
        /\ \E r \in db : r.filepath = last.steps[i].target /\ r.id <= seq - last.count

\* the filepath that the record of step j has when step i of the same
\* compression runs
PathAt(steps, j, i) ==
    IF j < i /\ steps[j].outcome = "updated" THEN steps[j].target ELSE steps[j].filepath

\* C18: in every compression, the path a record's picture is written to and
\* the file that is removed for it are not the filepath that any other record
\* has at that moment.
C18_NoForeignFile ==
    last.op = "compress" =>
        \A i, j \in DOMAIN last.steps :
            LET steps == last.steps
            IN  i # j =>
                    /\ steps[i].outcome \in {"saved", "updated", "IntegrityError"}
                            => steps[i].target # PathAt(steps, j, i)
                    /\ steps[i].outcome \in {"updated", "IntegrityError"}
                            => steps[i].filepath # PathAt(steps, j, i)

\* every record of the compression was encoded and has its new path
AllEncoded(report) ==
    /\ report.op = "compress"
    /\ report.steps # <<>>
    /\ \A i \in DOMAIN report.steps : report.steps[i].outcome \in Encoded

\* C19: a compression that directly follows a compression with the same
\* format in which every record was encoded leaves every record, hence every
\* filepath, and the set of files in IMAGES_DIR as they were: each record's
\* new path is the path it has.
C19_SecondRunKeepsPaths ==
    [][(AllEncoded(last) /\ last'.op = "compress"
            /\ last'.options.format = last.options.format) =>
        /\ db' = db
        /\ DOMAIN fs' = DOMAIN fs
        /\ \A i \in DOMAIN last'.steps :
                /\ last'.steps[i].target = last'.steps[i].filepath
                /\ last'.steps[i].target.name.sfx
                        = Append(last'.steps[i].filename.sfx, 0)]_vars

\* two records were compressed twice in a row to the same format, and the
\* second run wrote both files in place
C19_Witness ==
    /\ last.op = "compress"
    /\ Len(last.steps) = 2
    /\ \A i \in DOMAIN last.steps :
            /\ last.steps[i].outcome = "saved"
            /\ last.steps[i].target = last.steps[i].filepath
            /\ exists(fs, last.steps[i].target)
    /\ Cardinality(db) = 2

\* C20: in every step, a record that exists before and after has the
\* filename it had; a record made by a drop has the basename of the path its
\* file was copied to as filename; and a compression or a call of
\* update_image_path keeps every record, with its id and filename, and
\* changes at most filepath.
C20_NameFixed ==
    [][/\ \A r \in db : \A q \in db' : q.id = r.id => q.filename = r.filename
       /\ last'.op = "drop" =>
            \A r \in NewRows(db, db') :
                /\ r.filename = basename(r.filepath)
                /\ \E i \in DOMAIN last'.steps : last'.steps[i].target = r.filepath
       /\ last'.op \in {"compress", "update_image_path"} =>
            /\ ids(db') = ids(db)
            /\ Cardinality(db') = Cardinality(db)
            /\ \A r \in db : \E q \in db' : q.id = r.id /\ q.filename = r.filename]_vars

\* a compression gave a record a new path, and its filename still is the
\* name of the file that was dropped
C20_Witness ==
    /\ last.op = "compress"
    /\ \E r \in db :
        /\ basename(r.filepath) # r.filename
        /\ r.filepath = join(compressed_name(splitext(r.filename).base, r.filepath.name.ext))
        /\ \E i \in DOMAIN last.steps :
                last.steps[i].id = r.id /\ last.steps[i].outcome = "updated"

====
